---- MODULE Spec2Model ----
(***************************************************************************)
(* Model of plots/comparison.py: the benchmark sweep that times two Poisson *)
(* solvers (Nimfem, "nim", and FEniCS, "fenics") through /usr/bin/time,     *)
(* reads the user time back from timings/<solver><n>.txt and plots the      *)
(* two series with the speedup.                                             *)
(*                                                                          *)
(* Text is a sequence of one-character strings.  Times are counted in      *)
(* hundredths of a second, so 2.50 is the integer 250.  The lines of the   *)
(* model have at most two significant fractional digits and use only the   *)
(* decimal notation (no exponent, no "inf"/"nan", no "-0.00").             *)
(***************************************************************************)
EXTENDS Integers, Sequences, FiniteSets, TLC

\* ------------------------------------------------------------------------
\* Bounds of the model
\* ------------------------------------------------------------------------

\* Number of timing files of a reuse run that may differ from a cleanly
\* populated timings/ directory.
MaxStray == 1

\* ------------------------------------------------------------------------
\* Sweep generator: elements = np.logspace(2, 7, 6); int(np.sqrt(n / 2))
\* ------------------------------------------------------------------------

LogStart == 2
LogStop == 7
NumElements == 6

RECURSIVE Pow10(_)
Pow10(e) == IF e = 0 THEN 1 ELSE 10 * Pow10(e - 1)

\* np.logspace(2, 7, 6): 10^2, 10^3, ..., 10^7
Logspace ==
  [k \in 1..NumElements |->
     Pow10(LogStart + ((k - 1) * (LogStop - LogStart)) \div (NumElements - 1))]

\* np.sqrt followed by int(): the square root with its fraction dropped,
\* computed by Newton's iteration on integers.
RECURSIVE NewtonSqrt(_, _)
NewtonSqrt(x, s) ==
  LET t == (s + x \div s) \div 2
  IN  IF t >= s THEN s ELSE NewtonSqrt(x, t)

IntSqrt(x) == IF x = 0 THEN 0 ELSE NewtonSqrt(x, x)

\* Variant: the root rounded to the nearest integer (round() for int()).
ProblemSizeRounded(n) ==
  LET s == IntSqrt(n \div 2)
  IN  IF (2 * s + 1) * (2 * s + 1) <= 4 * (n \div 2) THEN s + 1 ELSE s

\* int(np.sqrt(n / 2)); every element count is even, so n / 2 is exact.
ProblemSize(n) == IntSqrt(n \div 2)

\* [int(np.sqrt(n / 2)) for n in elements]
Sizes == [k \in 1..NumElements |-> ProblemSize(Logspace[k])]

\* ------------------------------------------------------------------------
\* Timing parser: line.split("user")[0], float(user_time)
\* ------------------------------------------------------------------------

Marker == <<"u", "s", "e", "r">>

Whitespace == {" ", "\n", "\t"}

Digits == {"0", "1", "2", "3", "4", "5", "6", "7", "8", "9"}

DigitVal(c) ==
  CASE c = "0" -> 0 [] c = "1" -> 1 [] c = "2" -> 2 [] c = "3" -> 3
    [] c = "4" -> 4 [] c = "5" -> 5 [] c = "6" -> 6 [] c = "7" -> 7
    [] c = "8" -> 8 [] c = "9" -> 9

\* Positions at which the marker starts in the line.
MarkerAt(line) ==
  {p \in 1..(Len(line) - Len(Marker) + 1) :
     SubSeq(line, p, p + Len(Marker) - 1) = Marker}

HasMarker(line) == MarkerAt(line) # {}

\* Variant: a line without the marker is rejected (yields the empty text,
\* which float() refuses).
SplitUserStrict(line) ==
  IF MarkerAt(line) = {}
  THEN <<>>
  ELSE LET p == CHOOSE q \in MarkerAt(line) : \A r \in MarkerAt(line) : q <= r
       IN  SubSeq(line, 1, p - 1)

\* line.split("user")[0]: the text before the first marker, the whole line
\* when the marker does not occur.
SplitUser(line) ==
  IF MarkerAt(line) = {}
  THEN line
  ELSE LET p == CHOOSE q \in MarkerAt(line) : \A r \in MarkerAt(line) : q <= r
       IN  SubSeq(line, 1, p - 1)

\* str.strip() as float() applies it: the text from its first to its last
\* character that is not whitespace.
Strip(s) ==
  LET keep == {p \in 1..Len(s) : s[p] \notin Whitespace}
  IN  IF keep = {} THEN <<>>
      ELSE SubSeq(s,
                  CHOOSE p \in keep : \A q \in keep : p <= q,
                  CHOOSE p \in keep : \A q \in keep : q <= p)

\* The value of a run of digits.
DigitsVal(s) ==
  LET val[k \in 0..Len(s)] ==
        IF k = 0 THEN 0 ELSE 10 * val[k - 1] + DigitVal(s[k])
  IN  val[Len(s)]

AllDigits(s) == \A p \in 1..Len(s) : s[p] \in Digits

\* The fraction digits as hundredths.
FracVal(s) ==
  (IF Len(s) >= 1 THEN 10 * DigitVal(s[1]) ELSE 0)
    + (IF Len(s) >= 2 THEN DigitVal(s[2]) ELSE 0)

ValueError == [ok |-> FALSE, val |-> 0]

Float(v) == [ok |-> TRUE, val |-> v]

\* An unsigned decimal: digits, optionally a point and digits, at least one
\* digit in all.
ParseUnsigned(s) ==
  LET dots == {p \in 1..Len(s) : s[p] = "."}
  IN  IF dots = {}
      THEN IF s # <<>> /\ AllDigits(s) THEN Float(100 * DigitsVal(s))
           ELSE ValueError
      ELSE LET d == CHOOSE p \in dots : TRUE
               ip == SubSeq(s, 1, d - 1)
               fp == SubSeq(s, d + 1, Len(s))
           IN  IF Cardinality(dots) = 1 /\ AllDigits(ip) /\ AllDigits(fp)
                  /\ Len(ip) + Len(fp) >= 1
               THEN Float(100 * DigitsVal(ip) + FracVal(fp))
               ELSE ValueError

\* float(text): surrounding whitespace is ignored, a sign is allowed.
ParseFloat(text) ==
  LET s == Strip(text)
  IN  IF s = <<>> THEN ValueError
      ELSE IF Head(s) = "-"
           THEN LET r == ParseUnsigned(Tail(s))
                IN  IF r.ok THEN Float(0 - r.val) ELSE ValueError
      ELSE IF Head(s) = "+" THEN ParseUnsigned(Tail(s))
      ELSE ParseUnsigned(s)

\* user_time = line.split("user")[0]; float(user_time)
UserTime(line) == ParseFloat(SplitUser(line))

\* ------------------------------------------------------------------------
\* Timing reports: the first line of timings/<solver><n>.txt
\* ------------------------------------------------------------------------

\* "0.00user 0.00system\n"
LineZero ==
  <<"0", ".", "0", "0", "u", "s", "e", "r", " ", "0", ".", "0", "0", "s", "y", "s", "t", "e", "m", "\n">>

\* "2.50user 0.01system\n"
LineNim ==
  <<"2", ".", "5", "0", "u", "s", "e", "r", " ", "0", ".", "0", "1", "s", "y", "s", "t", "e", "m", "\n">>

\* "5.00user 0.20system\n"
LineFenics ==
  <<"5", ".", "0", "0", "u", "s", "e", "r", " ", "0", ".", "2", "0", "s", "y", "s", "t", "e", "m", "\n">>

\* "-1.00user 0.00system\n"
LineNegative ==
  <<"-", "1", ".", "0", "0", "u", "s", "e", "r", " ", "0", ".", "0", "0", "s", "y", "s", "t", "e", "m", "\n">>

\* "3.14\n"
LineNumberOnly ==
  <<"3", ".", "1", "4", "\n">>

\* "no marker here"
LineNoMarker ==
  <<"n", "o", " ", "m", "a", "r", "k", "e", "r", " ", "h", "e", "r", "e">>

\* "Command exited with non-zero status 1\n", the first line GNU time
\* writes when the timed command fails.
LineExited ==
  <<"C", "o", "m", "m", "a", "n", "d", " ", "e", "x", "i", "t", "e", "d", " ", "w", "i", "t", "h", " ", "n", "o", "n", "-", "z", "e", "r", "o", " ", "s", "t", "a", "t", "u", "s", " ", "1", "\n">>

\* readline() of an empty file
LineEmpty == <<>>

\* First lines a timing file may hold.
Lines ==
  {LineZero, LineNim, LineFenics, LineNegative, LineNumberOnly,
   LineNoMarker, LineExited, LineEmpty}

\* First lines the timing wrapper leaves in the file it writes.
WrapperLines == {LineZero, LineExited, LineEmpty}

Missing == [exists |-> FALSE, line |-> <<>>]

File(l) == [exists |-> TRUE, line |-> l]

Contents == {Missing} \cup {File(l) : l \in Lines}

Solvers == {"nim", "fenics"}

\* The sizes of an earlier sweep whose reports may lie in timings/.
ArchivedSizes == {7, 22, 70, 224, 707, 2236}

SweepSizes == {Sizes[k] : k \in 1..NumElements}

\* f"timings/nim{n}.txt", f"timings/fenics{n}.txt"
TimingPath(s, size) == <<s, size>>

Paths == {TimingPath(s, size) : s \in Solvers, size \in SweepSizes \cup ArchivedSizes}

\* A timings/ directory holding a report of either solver for exactly the
\* sizes of S.
Populated(S) ==
  [p \in Paths |->
     IF p[2] \in S
     THEN (IF p[1] = "nim" THEN File(LineNim) ELSE File(LineFenics))
     ELSE Missing]

\* The directories that differ from base in at most MaxStray files.
WithStray(base) ==
  {[p \in Paths |-> IF p \in DOMAIN g THEN g[p] ELSE base[p]] :
     g \in UNION {[D -> Contents] :
                    D \in {E \in SUBSET Paths : Cardinality(E) <= MaxStray}}}

ExitCodes == {0, 1}

\* What an invocation of the timing wrapper does to its report file: it
\* leaves the file as it was, or it writes it.
WrapperEffects ==
  {[write |-> FALSE, line |-> <<>>]}
    \cup {[write |-> TRUE, line |-> l] : l \in WrapperLines}

\* ------------------------------------------------------------------------
\* Speedup: time_fenics / time_nim on numpy arrays
\* ------------------------------------------------------------------------

Abs(x) == IF x < 0 THEN 0 - x ELSE x

RECURSIVE Gcd(_, _)
Gcd(a, b) == IF b = 0 THEN a ELSE Gcd(b, a % b)

\* b / a in floating point: a zero divisor gives inf, -inf or nan.
Divide(b, a) ==
  IF a = 0
  THEN [kind |-> (IF b > 0 THEN "inf" ELSE IF b < 0 THEN "-inf" ELSE "nan"),
        num |-> 0, den |-> 0]
  ELSE LET g == Gcd(Abs(b), Abs(a))
           sg == IF a < 0 THEN 0 - 1 ELSE 1
       IN  [kind |-> "ratio", num |-> sg * (b \div g), den |-> sg * (a \div g)]

\* ------------------------------------------------------------------------
\* State
\* ------------------------------------------------------------------------

VARIABLES
  elements,     \* the target element counts
  sizes,        \* the list the loop runs over
  run,          \* the mode flag: TRUE executes the solvers, FALSE reuses
  files,        \* timings/: path -> contents
  pc,           \* position of the script
  i,            \* index of the sweep iteration, 0 before the first
  n,            \* the loop variable
  time_nim,     \* parsed times of solver A
  time_fenics,  \* parsed times of solver B
  active,       \* subprocesses started and not yet waited for
  exits,        \* exit codes of this iteration's subprocesses, -1: none
  speedup,      \* the printed speedup array
  reported,     \* the speedup line has been printed
  image,        \* comparison.png has been written
  error,        \* the exception that ended the script
  files0,       \* history: timings/ at the start
  written,      \* history: paths the timing wrapper has written
  log           \* history: launches, exits and file reads, in order

vars ==
  <<elements, sizes, run, files, pc, i, n, time_nim, time_fenics, active, exits, speedup,
    reported, image, error, files0, written, log>>

NoExits == [s \in Solvers |-> 0 - 1]

FileAt(p) == IF p \in DOMAIN files THEN files[p] ELSE Missing

Init ==
  /\ elements = Logspace
  /\ sizes = Sizes
  /\ run \in BOOLEAN
  /\ files \in IF run
               THEN {Populated({}), Populated(ArchivedSizes)}
               ELSE WithStray(Populated(SweepSizes))
                      \cup {Populated(ArchivedSizes)}
  /\ files0 = files
  /\ pc = "for"
  /\ i = 0
  /\ n = 0
  /\ time_nim = <<>>
  /\ time_fenics = <<>>
  /\ active = {}
  /\ exits = NoExits
  /\ speedup = <<>>
  /\ reported = FALSE
  /\ image = FALSE
  /\ error = "none"
  /\ written = {}
  /\ log = <<>>

\* ------------------------------------------------------------------------
\* The sweep loop
\* ------------------------------------------------------------------------

\* for n in [...]: print(n); if run: -- variant that always executes
NextSizeAlwaysRun ==
  /\ pc = "for"
  /\ i < NumElements
  /\ i' = i + 1
  /\ n' = sizes[i + 1]
  /\ exits' = NoExits
  /\ pc' = "run_nim"
  /\ UNCHANGED <<elements, sizes, run, files, time_nim, time_fenics, active, speedup,
                 reported, image, error, files0, written, log>>

\* for n in [...]: print(n); if run:
NextSize ==
  /\ pc = "for"
  /\ i < NumElements
  /\ i' = i + 1
  /\ n' = sizes[i + 1]
  /\ exits' = NoExits
  /\ pc' = IF run THEN "run_nim" ELSE "read_nim"
  /\ UNCHANGED <<elements, sizes, run, files, time_nim, time_fenics, active, speedup,
                 reported, image, error, files0, written, log>>

\* subprocess.run starts the timing wrapper around a solver
Launch(s, here, wait) ==
  /\ pc = here
  /\ active' = active \cup {s}
  /\ log' = Append(log, <<"launch", s, n>>)
  /\ pc' = wait
  /\ UNCHANGED <<elements, sizes, run, files, i, n, time_nim, time_fenics, exits, speedup,
                 reported, image, error, files0, written>>

\* subprocess.run returns: the wrapper has terminated with some exit code,
\* having written its report or not; the exit code is not looked at.
Exit(s, wait, next) ==
  /\ pc = wait
  /\ \E code \in ExitCodes, eff \in WrapperEffects :
       /\ exits' = [exits EXCEPT ![s] = code]
       /\ files' = IF eff.write
                   THEN [files EXCEPT ![TimingPath(s, n)] = File(eff.line)]
                   ELSE files
       /\ written' = IF eff.write
                     THEN written \cup {TimingPath(s, n)}
                     ELSE written
  /\ active' = active \ {s}
  /\ log' = Append(log, <<"exit", s, n>>)
  /\ pc' = next
  /\ UNCHANGED <<elements, sizes, run, i, n, time_nim, time_fenics, speedup, reported, image,
                 error, files0>>

\* Variant: subprocess.Popen, the script goes on without waiting.
RunNimNoWait == Launch("nim", "run_nim", "run_fenics")

\* subprocess.run(["/usr/bin/time", "-o", f"timings/nim{n}.txt", "./poisson", f"{n}"])
RunNim == Launch("nim", "run_nim", "wait_nim")

\* Variant: subprocess.run(..., check=True), a non-zero exit raises.
ExitNimChecked ==
  /\ pc = "wait_nim"
  /\ \E code \in ExitCodes, eff \in WrapperEffects :
       /\ exits' = [exits EXCEPT !["nim"] = code]
       /\ files' = IF eff.write
                   THEN [files EXCEPT ![TimingPath("nim", n)] = File(eff.line)]
                   ELSE files
       /\ written' = IF eff.write
                     THEN written \cup {TimingPath("nim", n)}
                     ELSE written
       /\ pc' = IF code = 0 THEN "run_fenics" ELSE "fatal"
       /\ error' = IF code = 0 THEN error ELSE "CalledProcessError"
  /\ active' = active \ {"nim"}
  /\ log' = Append(log, <<"exit", "nim", n>>)
  /\ UNCHANGED <<elements, sizes, run, i, n, time_nim, time_fenics, speedup, reported, image,
                 files0>>

ExitNim == Exit("nim", "wait_nim", "run_fenics")

\* subprocess.run(["/usr/bin/time", "-o", f"timings/fenics{n}.txt",
\*                 "python3", "poisson.py", f"{n}"], env=fenics_env)
RunFenics == Launch("fenics", "run_fenics", "wait_fenics")

ExitFenics == Exit("fenics", "wait_fenics", "read_nim")

\* float(line.split("user")[0]) of every first line a report may hold.
ParsedTime == [l \in Lines |-> UserTime(l)]

\* with open(path) as f: line = f.readline(); float(line.split("user")[0])
\* The outcome of reading one report: the exception raised, or the time.
ReadReport(p) ==
  LET c == FileAt(p)
  IN  IF ~c.exists THEN [error |-> "FileNotFoundError", val |-> 0]
      ELSE LET r == ParsedTime[c.line]
           IN  IF r.ok THEN [error |-> "none", val |-> r.val]
               ELSE [error |-> "ValueError", val |-> 0]

\* Variant: a report that cannot be read falls back to running the solver.
ReadNimFallback ==
  /\ pc = "read_nim"
  /\ LET r == ReadReport(TimingPath("nim", n))
     IN  /\ error' = error
         /\ pc' = IF r.error = "none" THEN "read_fenics" ELSE "run_nim"
         /\ time_nim' = IF r.error = "none" THEN Append(time_nim, r.val)
                        ELSE time_nim
  /\ log' = Append(log, <<"read", "nim", n>>)
  /\ UNCHANGED <<elements, sizes, run, files, i, n, time_fenics, active, exits, speedup,
                 reported, image, files0, written>>

\* Variant: a report that cannot be read counts as 0.0 and the sweep goes on.
ReadNimSwallow ==
  /\ pc = "read_nim"
  /\ LET r == ReadReport(TimingPath("nim", n))
     IN  /\ error' = IF r.error = "none" THEN error ELSE r.error
         /\ pc' = "read_fenics"
         /\ time_nim' = Append(time_nim, r.val)
  /\ log' = Append(log, <<"read", "nim", n>>)
  /\ UNCHANGED <<elements, sizes, run, files, i, n, time_fenics, active, exits, speedup,
                 reported, image, files0, written>>

\* with open(f"timings/nim{n}.txt") as f: ... time_nim.append(float(user_time))
ReadNim ==
  /\ pc = "read_nim"
  /\ LET r == ReadReport(TimingPath("nim", n))
     IN  /\ error' = IF r.error = "none" THEN error ELSE r.error
         /\ pc' = IF r.error = "none" THEN "read_fenics" ELSE "fatal"
         /\ time_nim' = IF r.error = "none" THEN Append(time_nim, r.val)
                        ELSE time_nim
  /\ log' = Append(log, <<"read", "nim", n>>)
  /\ UNCHANGED <<elements, sizes, run, files, i, n, time_fenics, active, exits, speedup,
                 reported, image, files0, written>>

\* Variant: solver B's time is read from solver A's report.
ReadFenicsWrongFile ==
  /\ pc = "read_fenics"
  /\ LET r == ReadReport(TimingPath("nim", n))
     IN  /\ error' = IF r.error = "none" THEN error ELSE r.error
         /\ pc' = IF r.error = "none" THEN "for" ELSE "fatal"
         /\ time_fenics' = IF r.error = "none" THEN Append(time_fenics, r.val)
                           ELSE time_fenics
  /\ log' = Append(log, <<"read", "fenics", n>>)
  /\ UNCHANGED <<elements, sizes, run, files, i, n, time_nim, active, exits, speedup,
                 reported, image, files0, written>>

\* Variant: solver B's time is appended to solver A's list.
ReadFenicsWrongList ==
  /\ pc = "read_fenics"
  /\ LET r == ReadReport(TimingPath("fenics", n))
     IN  /\ error' = IF r.error = "none" THEN error ELSE r.error
         /\ pc' = IF r.error = "none" THEN "for" ELSE "fatal"
         /\ time_nim' = IF r.error = "none" THEN Append(time_nim, r.val)
                        ELSE time_nim
  /\ log' = Append(log, <<"read", "fenics", n>>)
  /\ UNCHANGED <<elements, sizes, run, files, i, n, time_fenics, active, exits, speedup,
                 reported, image, files0, written>>

\* with open(f"timings/fenics{n}.txt") as f: ... time_fenics.append(float(user_time))
ReadFenics ==
  /\ pc = "read_fenics"
  /\ LET r == ReadReport(TimingPath("fenics", n))
     IN  /\ error' = IF r.error = "none" THEN error ELSE r.error
         /\ pc' = IF r.error = "none" THEN "for" ELSE "fatal"
         /\ time_fenics' = IF r.error = "none" THEN Append(time_fenics, r.val)
                           ELSE time_fenics
  /\ log' = Append(log, <<"read", "fenics", n>>)
  /\ UNCHANGED <<elements, sizes, run, files, i, n, time_nim, active, exits, speedup,
                 reported, image, files0, written>>

\* ------------------------------------------------------------------------
\* After the loop
\* ------------------------------------------------------------------------

\* np.array(time_nim), np.array(time_fenics), the two plt.loglog curves:
\* each curve needs as many times as there are elements.
Plot ==
  /\ pc = "for"
  /\ i = NumElements
  /\ IF Len(time_nim) = NumElements /\ Len(time_fenics) = NumElements
     THEN pc' = "speedup" /\ error' = error
     ELSE pc' = "fatal" /\ error' = "ValueError"
  /\ UNCHANGED <<elements, sizes, run, files, i, n, time_nim, time_fenics, active, exits,
                 speedup, reported, image, files0, written, log>>

\* Variant: scalar division, a zero divisor raises.
PrintSpeedupScalar ==
  /\ pc = "speedup"
  /\ IF \E k \in 1..Len(time_nim) : time_nim[k] = 0
     THEN /\ pc' = "fatal"
          /\ error' = "ZeroDivisionError"
          /\ UNCHANGED <<speedup, reported>>
     ELSE /\ speedup' = [k \in 1..Len(time_nim) |->
                           Divide(time_fenics[k], time_nim[k])]
          /\ reported' = TRUE
          /\ pc' = "savefig"
          /\ error' = error
  /\ UNCHANGED <<elements, sizes, run, files, i, n, time_nim, time_fenics, active, exits,
                 image, files0, written, log>>

\* print("Speedup: ", time_fenics/time_nim)
PrintSpeedup ==
  /\ pc = "speedup"
  /\ speedup' = [k \in 1..Len(time_nim) |->
                   Divide(time_fenics[k], time_nim[k])]
  /\ reported' = TRUE
  /\ pc' = "savefig"
  /\ UNCHANGED <<elements, sizes, run, files, i, n, time_nim, time_fenics, active, exits,
                 image, error, files0, written, log>>

\* plt.savefig("comparison.png")
SaveFig ==
  /\ pc = "savefig"
  /\ image' = TRUE
  /\ pc' = "done"
  /\ UNCHANGED <<elements, sizes, run, files, i, n, time_nim, time_fenics, active, exits,
                 speedup, reported, error, files0, written, log>>

\* The steps of the script itself; the termination of a subprocess is the
\* environment's.
Step ==
  \/ NextSize
  \/ RunNim
  \/ RunFenics
  \/ ReadNim
  \/ ReadFenics
  \/ Plot
  \/ PrintSpeedup
  \/ SaveFig

Next ==
  \/ NextSize
  \/ RunNim
  \/ ExitNim
  \/ RunFenics
  \/ ExitFenics
  \/ ReadNim
  \/ ReadFenics
  \/ Plot
  \/ PrintSpeedup
  \/ SaveFig

Spec == Init /\ [][Next]_vars

\* The script runs on whenever it can take a step; a solver may hang.
FairSpec == Spec /\ WF_vars(Step)

\* ------------------------------------------------------------------------
\* Properties
\* ------------------------------------------------------------------------

Last(s) == s[Len(s)]

Launches == {k \in 1..Len(log) : log[k][1] = "launch"}

\* The times of a solver and the report the k-th of them was read from.
TimesOf(s) == IF s = "nim" THEN time_nim ELSE time_fenics

LineOf(s, k) == FileAt(TimingPath(s, sizes[k])).line

\* The timings/ directory holds, for both solvers, a report "<float>user..."
\* for exactly the sizes of S, and the script reuses it.
ReuseScenario(S) ==
  /\ ~run
  /\ \A p \in DOMAIN files :
       IF p[2] \in S
       THEN /\ files[p].exists
            /\ HasMarker(files[p].line)
            /\ ParseFloat(SplitUser(files[p].line)).ok
       ELSE ~files[p].exists

\* C1: at every iteration of the sweep the loop variable is the integer
\* square root of half the element count of that iteration, the sizes come
\* in the order of the six element counts 10^2 .. 10^7, the first is 7 and
\* the last is 2236.
C1_ProblemSizeIsFloorSqrt ==
  /\ elements = <<100, 1000, 10000, 100000, 1000000, 10000000>>
  /\ i >= 1 =>
       /\ n * n <= elements[i] \div 2
       /\ elements[i] \div 2 < (n + 1) * (n + 1)
       /\ i = 1 => n = 7
       /\ i = 6 => n = 2236

C1_Witness == i = 6 /\ n = 2236 /\ pc = "done"

\* C2 as stated: with the reports in place for the sizes 7, 22, 70, 224,
\* 707, 2236 the reuse run never ends in a fatal error.
C2_ListedSizesNeverFatal ==
  ReuseScenario({7, 22, 70, 224, 707, 2236}) => pc # "fatal"

\* C2, amended: with the reports in place for exactly the sizes 7, 22, 70,
\* 223, 707, 2236 the reuse run reaches its end without an error, with the
\* image written, a speedup array of length 6 printed and no subprocess
\* ever launched.
C2_ReuseScenarioCompletes ==
  ReuseScenario({7, 22, 70, 223, 707, 2236})
    ~> (/\ pc = "done"
        /\ error = "none"
        /\ image
        /\ reported
        /\ Len(speedup) = 6
        /\ Launches = {}
        /\ active = {})

C2_Witness ==
  /\ ReuseScenario({7, 22, 70, 223, 707, 2236})
  /\ pc = "done"
  /\ Len(speedup) = 6

\* C3: in reuse mode no subprocess is ever launched and no timing file is
\* created or overwritten, a fatal missing file included.
C3_ReuseNeverExecutes ==
  ~run =>
    /\ \A k \in 1..Len(log) : log[k][1] = "read"
    /\ active = {}
    /\ written = {}
    /\ files = files0

C3_Witness == ~run /\ pc = "fatal" /\ error = "FileNotFoundError" /\ i >= 2

\* C4 as stated: no time is ever taken from a report whose first line lacks
\* the marker.
C4_NoMarkerNeverMeasured ==
  \A s \in Solvers : \A k \in 1..Len(TimesOf(s)) : HasMarker(LineOf(s, k))

\* C4, amended: a report whose first line lacks the marker is fatal exactly
\* when the whole line is not a number; when it is one, that number is the
\* time taken.
C4_NoMarkerMeasuredIffNumber ==
  /\ \A s \in Solvers : \A k \in 1..Len(TimesOf(s)) :
       ~HasMarker(LineOf(s, k)) =>
         /\ ParseFloat(LineOf(s, k)).ok
         /\ TimesOf(s)[k] = ParseFloat(LineOf(s, k)).val
  /\ (/\ pc = "fatal"
      /\ log # <<>>
      /\ Last(log)[1] = "read"
      /\ FileAt(TimingPath(Last(log)[2], Last(log)[3])).exists
      /\ ~HasMarker(FileAt(TimingPath(Last(log)[2], Last(log)[3])).line))
       => /\ error = "ValueError"
          /\ ~ParseFloat(FileAt(TimingPath(Last(log)[2], Last(log)[3])).line).ok

C4_Witness ==
  \E k \in 1..Len(time_nim) :
    /\ ~HasMarker(LineOf("nim", k))
    /\ time_nim[k] = 314

\* C5: a report that cannot be read or parsed is the last thing the script
\* touches: the script is in its fatal state, nothing was read after it,
\* the speedup is not printed and the image is not written.
C5_FailureAbortsSweep ==
  /\ \A k \in 1..Len(log) :
       (/\ log[k][1] = "read"
        /\ ReadReport(TimingPath(log[k][2], log[k][3])).error # "none")
         => /\ k = Len(log)
            /\ pc = "fatal"
            /\ error = ReadReport(TimingPath(log[k][2], log[k][3])).error
  /\ error # "none" =>
       /\ pc = "fatal"
       /\ ~image
       /\ ~reported
       /\ speedup = <<>>
       /\ log # <<>>
       /\ Last(log)[1] = "read"
       /\ ReadReport(TimingPath(Last(log)[2], Last(log)[3])).error = error

C5_Witness ==
  /\ pc = "fatal"
  /\ error = "ValueError"
  /\ i >= 2
  /\ Last(log) = <<"read", "fenics", n>>

\* C6: once the speedup is computed and plotted both series have one time
\* per problem size, and the k-th time of each solver is the one parsed
\* from that solver's report for the k-th size.
C6_SeriesAligned ==
  pc \in {"speedup", "savefig", "done"} =>
    /\ Len(time_nim) = NumElements
    /\ Len(time_fenics) = NumElements
    /\ \A s \in Solvers : \A k \in 1..NumElements :
         ReadReport(TimingPath(s, sizes[k])) =
           [error |-> "none", val |-> TimesOf(s)[k]]

C6_Witness ==
  /\ pc = "done"
  /\ \E k \in 1..NumElements : time_nim[k] # time_nim[1]
  /\ \E k \in 1..NumElements : time_fenics[k] # time_nim[k]

\* The k-th event of an execute run: per size, solver A is launched and
\* exits, solver B is launched and exits, A's report is read, then B's.
ExpectedEvent(k) ==
  LET size == sizes[(k - 1) \div 6 + 1]
      r == (k - 1) % 6
  IN  CASE r = 0 -> <<"launch", "nim", size>>
        [] r = 1 -> <<"exit", "nim", size>>
        [] r = 2 -> <<"launch", "fenics", size>>
        [] r = 3 -> <<"exit", "fenics", size>>
        [] r = 4 -> <<"read", "nim", size>>
        [] r = 5 -> <<"read", "fenics", size>>

\* C7: in execute mode the launches, exits and reads happen in the order
\* A launched, A exited, B launched, B exited, A read, B read for each size
\* in turn, and at most one subprocess is active at any time.
C7_ExecuteOrder ==
  run =>
    /\ Cardinality(active) <= 1
    /\ \A k \in 1..Len(log) : log[k] = ExpectedEvent(k)
    /\ \A s \in Solvers :
         s \in active <=> (log # <<>> /\ Last(log) = <<"launch", s, n>>)

C7_Witness == run /\ pc = "done" /\ Len(log) = 36

\* C8 as stated: a subprocess that exited non-zero never has its report
\* taken as a time.
C8_FailureAlwaysSurfaces ==
  \A s \in Solvers : exits[s] = 1 => Len(TimesOf(s)) < i

\* C8, amended: the exit code changes nothing; the script fails only at a
\* read, with the error of the report it read, and after a non-zero exit
\* the time taken is whatever the report of that solver and size parses to.
C8_ExitCodeIgnored ==
  /\ error \in {"none", "FileNotFoundError", "ValueError"}
  /\ pc = "fatal" =>
       /\ log # <<>>
       /\ Last(log)[1] = "read"
       /\ ReadReport(TimingPath(Last(log)[2], Last(log)[3])).error = error
  /\ \A s \in Solvers :
       (exits[s] = 1 /\ Len(TimesOf(s)) = i) =>
         ReadReport(TimingPath(s, n)) =
           [error |-> "none", val |-> TimesOf(s)[i]]
  /\ \A s \in Solvers :
       (exits[s] = 1 /\ pc = "fatal" /\ log # <<>>
          /\ Last(log) = <<"read", s, n>>) =>
         ReadReport(TimingPath(s, n)).error
           \in {"FileNotFoundError", "ValueError"}

C8_Witness ==
  /\ run
  /\ exits["nim"] = 1
  /\ Len(time_nim) = i
  /\ pc = "done"

AllParsed == Len(time_nim) = NumElements /\ Len(time_fenics) = NumElements

\* C9: once every report has parsed the script reaches its end with the
\* image written and the speedup printed: solver B's time over solver A's
\* where A's time is not zero, an infinite or undefined value where it is.
C9_DegenerateRatioCompletes ==
  AllParsed
    ~> (/\ pc = "done"
        /\ error = "none"
        /\ image
        /\ reported
        /\ Len(speedup) = NumElements
        /\ \A k \in 1..NumElements :
             IF time_nim[k] = 0
             THEN speedup[k].kind \in {"inf", "-inf", "nan"}
             ELSE /\ speedup[k].kind = "ratio"
                  /\ speedup[k].den # 0
                  /\ speedup[k].num * time_nim[k]
                       = speedup[k].den * time_fenics[k])

C9_Witness ==
  /\ pc = "done"
  /\ \E k \in 1..NumElements : time_nim[k] = 0
  /\ \E k \in 1..NumElements : time_nim[k] > 0

\* C10 as stated: when an execute run fails at the i-th size the reports of
\* the sizes 1..i have been overwritten.
C10_FailureAfterOverwrite ==
  (run /\ pc = "fatal") =>
    \A s \in Solvers : \A k \in 1..i : TimingPath(s, sizes[k]) \in written

\* C10, amended: solver A's series is as long as solver B's or one longer;
\* in execute mode nothing is launched or written for a size after the
\* current one, and when the run fails at the i-th size both solvers have
\* been launched and have exited for the sizes 1..i.
C10_InterleavedSweep ==
  LET events == {log[e] : e \in 1..Len(log)}
  IN  /\ Len(time_nim) - Len(time_fenics) \in {0, 1}
      /\ run =>
           /\ \A ev \in events : \E k \in 1..i : ev[3] = sizes[k]
           /\ \A s \in Solvers : \A k \in (i + 1)..NumElements :
                /\ TimingPath(s, sizes[k]) \notin written
                /\ files[TimingPath(s, sizes[k])]
                     = files0[TimingPath(s, sizes[k])]
      /\ (run /\ pc = "fatal") =>
           \A s \in Solvers : \A k \in 1..i :
             /\ <<"launch", s, sizes[k]>> \in events
             /\ <<"exit", s, sizes[k]>> \in events

C10_Witness ==
  /\ run
  /\ pc = "fatal"
  /\ i = 3
  /\ TimingPath("nim", n) \notin written

====
